---- MODULE Spec2Model ----
(***************************************************************************)
(* Model of src/philips_air_api.py: the PhilipsAirPurifier client, its     *)
(* session handle (self._client), the reconnect-and-retry loop of          *)
(* get_status, the domain get/set operations and their value translation.  *)
(*                                                                         *)
(* Every await of the source is one step of the model.  Python strings are *)
(* sequences of one-character strings, so that str.lower(), the `in`       *)
(* substring test and f-string formatting are computed, not assumed.       *)
(* Python values that may be of several types carry their type            *)
(* (kind, int, str).  Sleep durations are in tenths of a second.           *)
(***************************************************************************)
EXTENDS Integers, Sequences, FiniteSets, TLC

VARIABLES
    max_retries,   \* self.max_retries
    client,        \* self._client: the held handle's number, 0 for None
    created,       \* how many handles Client.create has returned so far
    shutdowns,     \* per handle, how often shutdown() was awaited on it
    device,        \* the raw state the appliance would report now
    pc,            \* position of the one outstanding call ("idle": none)
    op,            \* the public method being executed
    arg,           \* its argument (a Python value)
    attempt,       \* loop variable of get_status
    last_error,    \* local last_error of get_status
    status,        \* local status: the mapping the last successful read returned
    value,         \* local value / device_value of a set_* method
    log,           \* transport interactions of the current call, in order
    result,        \* how the last call ended
    entry_client,  \* self._client when the current call was entered
    hc             \* handle_command: where it is (at) and how it ends (exit)

vars == <<max_retries, client, created, shutdowns, device, pc, op, arg,
          attempt, last_error, status, value, log, result, entry_client,
          hc>>

(***************************************************************************)
(* Bounds of the model.                                                    *)
(***************************************************************************)
MaxBudget == 3
MaxHandles == 3

(***************************************************************************)
(* Python strings.                                                         *)
(***************************************************************************)
UpperLetters == <<"A","B","C","D","E","F","G","H","I","J","K","L","M",
                  "N","O","P","Q","R","S","T","U","V","W","X","Y","Z">>
LowerLetters == <<"a","b","c","d","e","f","g","h","i","j","k","l","m",
                  "n","o","p","q","r","s","t","u","v","w","x","y","z">>

\* str.lower() on one character
LowerChar(c) ==
    IF \E i \in 1..26 : UpperLetters[i] = c
    THEN LowerLetters[CHOOSE i \in 1..26 : UpperLetters[i] = c]
    ELSE c

\* str.lower()
Lower(s) == [i \in 1..Len(s) |-> LowerChar(s[i])]

\* sub in s
Contains(sub, s) ==
    \E i \in 1..(Len(s) - Len(sub) + 1) : SubSeq(s, i, i + Len(sub) - 1) = sub

DigitChars == <<"0","1","2","3","4","5","6","7","8","9">>

RECURSIVE NatStr(_)
NatStr(n) ==
    IF n < 10 THEN <<DigitChars[n + 1]>>
    ELSE NatStr(n \div 10) \o <<DigitChars[(n % 10) + 1]>>

\* str(n) for an int n
IntStr(n) == IF n < 0 THEN <<"-">> \o NatStr(0 - n) ELSE NatStr(n)

(***************************************************************************)
(* Python values of varying type.                                          *)
(***************************************************************************)
PyNone == [kind |-> "none", int |-> 0, str |-> <<>>]
PyInt(n) == [kind |-> "int", int |-> n, str |-> <<>>]
PyStr(s) == [kind |-> "str", int |-> 0, str |-> s]
PyBool(b) == [kind |-> "bool", int |-> IF b THEN 1 ELSE 0, str |-> <<>>]
\* a float with one decimal place: int holds its tenths (50.0 is 500)
PyFloat1(tenths) == [kind |-> "float", int |-> tenths, str |-> <<>>]

\* str(v), as an f-string renders v
PyToStr(v) ==
    CASE v.kind = "none" -> <<"N","o","n","e">>
      [] v.kind = "int" -> IntStr(v.int)
      [] v.kind = "bool" -> IF v.int = 1 THEN <<"T","r","u","e">>
                            ELSE <<"F","a","l","s","e">>
      [] OTHER -> v.str

\* bool(v)
Truthy(v) ==
    CASE v.kind = "none" -> FALSE
      [] v.kind = "str" -> Len(v.str) > 0
      [] OTHER -> v.int # 0

(***************************************************************************)
(* Class constants: the parameter registry, mode codes, light constants.   *)
(***************************************************************************)
PARAM_POWER == "D03102"
PARAM_MODE == "D0310C"
PARAM_LIGHT == "D03104"
PARAM_CHILD_LOCK == "D03103"

MODE_AUTO == 0
MODE_SLEEP == 17
MODE_MEDIUM == 19
MODE_TURBO == 18

LIGHT_OFF == 0
LIGHT_DIM == 115
LIGHT_BRIGHT == 123

(***************************************************************************)
(* Exceptions: class and message.  NoError is None.                        *)
(***************************************************************************)
NoError == [cls |-> "None", msg |-> <<>>]

\* str(e) / f"{e}"
ErrToStr(e) == IF e = NoError THEN <<"N","o","n","e">> ELSE e.msg

MsgNonHex == <<"n","o","n","-","h","e","x","a","d","e","c","i","m","a","l",
               " ","n","u","m","b","e","r"," ","f","o","u","n","d">>
MsgDecryption == <<"D","e","c","r","y","p","t","i","o","n"," ",
                   "f","a","i","l","e","d">>
MsgNonHexCapital == <<"N","o","n","-","h","e","x","a","d","e","c","i","m","a","l",
                      " ","d","i","g","i","t">>
MsgTimeout == <<"t","i","m","e","d"," ","o","u","t">>
MsgRefused == <<"c","o","n","n","e","c","t","i","o","n"," ",
                "r","e","f","u","s","e","d">>

\* what awaiting self._client.get_status() / set_control_value() may raise
TransportErrors ==
    { [cls |-> "ValueError", msg |-> MsgNonHex],
      [cls |-> "Exception", msg |-> MsgDecryption],
      [cls |-> "ValueError", msg |-> MsgNonHexCapital],
      [cls |-> "TimeoutError", msg |-> MsgTimeout] }

\* what awaiting Client.create() may raise
ConnectError == [cls |-> "OSError", msg |-> MsgRefused]

\* the condition of line 49 on error_msg
IsTransientAnyCase(error_msg) ==
    \/ Contains(<<"n","o","n","-","h","e","x","a","d","e","c","i","m","a","l">>,
                Lower(error_msg))
    \/ Contains(<<"d","e","c","r","y","p","t">>, Lower(error_msg))
IsTransient(error_msg) ==
    \/ Contains(<<"n","o","n","-","h","e","x","a","d","e","c","i","m","a","l">>,
                error_msg)
    \/ Contains(<<"d","e","c","r","y","p","t">>, Lower(error_msg))

\* the condition of line 51
MayRetryOffByOne(att, budget) == att < budget
MayRetry(att, budget) == att < budget - 1

\* the argument of asyncio.sleep on line 53, 0.5 * (attempt + 1), in tenths
\* of a second
BackoffConstant(att) == 5
Backoff(att) == 5 * (att + 1)

\* the exception of line 58
RetryExhausted(budget, last) ==
    [cls |-> "Exception",
     msg |-> <<"F","a","i","l","e","d"," ","t","o"," ","g","e","t"," ",
               "s","t","a","t","u","s"," ","a","f","t","e","r"," ">>
             \o IntStr(budget)
             \o <<" ","a","t","t","e","m","p","t","s",":"," ">>
             \o ErrToStr(last)]

(***************************************************************************)
(* Raw device state: a mapping from the parameter codes that are present   *)
(* to their raw values.                                                    *)
(***************************************************************************)
EmptyRaw == [k \in {} |-> 0]

Raw(power, mode, light, lock) ==
    (PARAM_POWER :> power) @@ (PARAM_MODE :> mode) @@
    (PARAM_LIGHT :> light) @@ (PARAM_CHILD_LOCK :> lock)

RawStates ==
    { EmptyRaw,
      (PARAM_POWER :> 1) @@ ("pm25" :> 0) @@ ("D03221" :> 12) @@
          ("iaql" :> 3) @@ ("tvoc" :> 1),
      Raw(1, 0, 115, 0) @@ ("D05408" :> 9600) @@ ("D0540E" :> 4800) @@
          ("D05207" :> 720) @@ ("D0520D" :> 360) @@ ("D03221" :> 8) @@
          ("D03120" :> 2) @@ ("temp" :> 21) @@ ("rh" :> 45) @@
          ("Runtime" :> 1000) @@ ("rssi" :> (0 - 50)),
      Raw(1, 17, 0, 1) @@ ("D05408" :> 0) @@ ("D0540E" :> 100) @@
          ("D05207" :> 0) @@ ("D0520D" :> 5),
      Raw(0, 19, 123, 0) @@ ("D0540E" :> 3200) @@ ("D0520D" :> 100) @@
          ("pm25" :> 7) @@ ("D03221" :> 9) @@ ("iaql" :> 0) @@
          ("D03120" :> 4),
      Raw(1, 18, 80, 0) @@ ("D05408" :> 4800) @@ ("D0540E" :> 3200) @@
          ("D05207" :> (0 - 1)) @@ ("D0520D" :> 10) @@ ("pm25" :> 5),
      Raw(1, 5, 0, 0) @@ ("D05408" :> 9600) @@ ("D05207" :> 720) @@
          ("D0520D" :> 720) }

\* status.get(key, default)
Get(st, key, default) == IF key \in DOMAIN st THEN PyInt(st[key]) ELSE default

(***************************************************************************)
(* Mode names.                                                             *)
(***************************************************************************)
\* a variant with the codes of medium and turbo exchanged
mode_map_swapped ==
    << [name |-> <<"a","u","t","o">>, code |-> MODE_AUTO],
       [name |-> <<"s","l","e","e","p">>, code |-> MODE_SLEEP],
       [name |-> <<"m","e","d","i","u","m">>, code |-> MODE_TURBO],
       [name |-> <<"t","u","r","b","o">>, code |-> MODE_MEDIUM] >>
\* mode_map of set_mode (lines 80-85), in insertion order
mode_map ==
    << [name |-> <<"a","u","t","o">>, code |-> MODE_AUTO],
       [name |-> <<"s","l","e","e","p">>, code |-> MODE_SLEEP],
       [name |-> <<"m","e","d","i","u","m">>, code |-> MODE_MEDIUM],
       [name |-> <<"t","u","r","b","o">>, code |-> MODE_TURBO] >>

\* key in mode_map
InModeMap(key) == \E i \in 1..Len(mode_map) : mode_map[i].name = key

\* mode_map[key]
ModeMapGet(key) ==
    mode_map[CHOOSE i \in 1..Len(mode_map) : mode_map[i].name = key].code

\* str(list(mode_map.keys()))
RECURSIVE KeysRepr(_)
KeysRepr(i) ==
    IF i > Len(mode_map) THEN <<>>
    ELSE (IF i > 1 THEN <<",", " ">> ELSE <<>>)
         \o <<"'">> \o mode_map[i].name \o <<"'">> \o KeysRepr(i + 1)

\* the exception of line 88
InvalidMode(mode) ==
    [cls |-> "ValueError",
     msg |-> <<"I","n","v","a","l","i","d"," ","m","o","d","e",":"," ">>
             \o mode
             \o <<"."," ","M","u","s","t"," ","b","e"," ","o","n","e"," ",
                  "o","f"," ">>
             \o <<"[">> \o KeysRepr(1) \o <<"]">>]

\* _get_mode_name(mode_value), lines 152-159
\* (the name map is the inverse of the four MODE_ constants)
get_mode_name(mode_value) ==
    IF mode_value.kind = "int" /\ mode_value.int = MODE_AUTO
    THEN <<"a","u","t","o">>
    ELSE IF mode_value.kind = "int" /\ mode_value.int = MODE_SLEEP
    THEN <<"s","l","e","e","p">>
    ELSE IF mode_value.kind = "int" /\ mode_value.int = MODE_MEDIUM
    THEN <<"m","e","d","i","u","m">>
    ELSE IF mode_value.kind = "int" /\ mode_value.int = MODE_TURBO
    THEN <<"t","u","r","b","o">>
    ELSE <<"u","n","k","n","o","w","n"," ","(">>
         \o PyToStr(mode_value) \o <<")">>

(***************************************************************************)
(* The domain reads: what each get_* method returns for the mapping that   *)
(* its call of get_status returned.                                        *)
(***************************************************************************)
get_power(st) == PyBool(Truthy(Get(st, PARAM_POWER, PyInt(0))))

get_mode(st) == Get(st, PARAM_MODE, PyStr(<<"u","n","k","n","o","w","n">>))

get_light_level(st) == Get(st, PARAM_LIGHT, PyInt(0))

get_child_lock(st) == PyBool(Truthy(Get(st, PARAM_CHILD_LOCK, PyInt(0))))

\* a or b
Or(a, b) == IF Truthy(a) THEN a ELSE b

\* get_air_quality, lines 93-100
get_air_quality(st) ==
    [pm25 |-> Or(Get(st, "pm25", PyNone), Get(st, "D03221", PyNone)),
     iaql |-> Or(Get(st, "iaql", PyNone), Get(st, "D03120", PyNone)),
     tvoc |-> Get(st, "tvoc", PyNone)]

\* the nearest integer to 1000 * part / total, total > 0: the tenths of
\* round(part / total * 100, 1)
Tenths(part, total) ==
    LET q == (1000 * part) \div total
        r == (1000 * part) % total
    IN IF 2 * r > total \/ (2 * r = total /\ q % 2 = 1) THEN q + 1 ELSE q

\* a variant that cuts the second decimal off instead of rounding
percent_truncated(part, total) ==
    IF total.int > 0
    THEN PyFloat1((1000 * part.int) \div total.int)
    ELSE PyInt(0)
\* round((part / total * 100) if total > 0 else 0, 1): lines 126 and 140,
\* 130 and 143
percent(part, total) ==
    IF total.int > 0
    THEN PyFloat1(Tenths(part.int, total.int))
    ELSE PyInt(0)

\* get_sensors, lines 121-150
get_sensors(st) ==
    LET filter_total == Get(st, "D05408", PyInt(9600))
        filter_remaining == Get(st, "D0540E", PyInt(0))
        cleanup_max_interval == Get(st, "D05207", PyInt(720))
        cleanup_time_until_next == Get(st, "D0520D", PyInt(0))
    IN [power |-> PyBool(Truthy(Get(st, PARAM_POWER, PyInt(0)))),
        mode |-> Get(st, PARAM_MODE, PyStr(<<"u","n","k","n","o","w","n">>)),
        mode_name |-> PyStr(get_mode_name(Get(st, PARAM_MODE, PyNone))),
        pm25 |-> Get(st, "D03221", PyNone),
        iaql |-> Get(st, "D03120", PyNone),
        tvoc |-> Get(st, "tvoc", PyNone),
        light_level |-> Get(st, PARAM_LIGHT, PyInt(0)),
        filter_life_percent |-> percent(filter_remaining, filter_total),
        filter_life_hours |-> filter_remaining,
        filter_total_hours |-> filter_total,
        cleanup_percent |->
            percent(cleanup_time_until_next, cleanup_max_interval),
        cleanup_hours_until_next |-> cleanup_time_until_next,
        cleanup_max_interval |-> cleanup_max_interval,
        temperature |-> Get(st, "temp", PyNone),
        humidity |-> Get(st, "rh", PyNone),
        runtime |-> Get(st, "Runtime", PyNone),
        wifi_rssi |-> Get(st, "rssi", PyNone)]

GetOps == {"get_status", "get_power", "get_mode", "get_light_level",
           "get_child_lock", "get_air_quality", "get_sensors"}

Translate(o, st) ==
    CASE o = "get_status" -> st
      [] o = "get_power" -> get_power(st)
      [] o = "get_mode" -> get_mode(st)
      [] o = "get_light_level" -> get_light_level(st)
      [] o = "get_child_lock" -> get_child_lock(st)
      [] o = "get_air_quality" -> get_air_quality(st)
      [] o = "get_sensors" -> get_sensors(st)

(***************************************************************************)
(* The domain writes: parameter and raw value of each set_* method.        *)
(***************************************************************************)
SetOps == {"set_power", "set_mode", "set_light_level", "set_child_lock"}

ModeInputs ==
    { <<"a","u","t","o">>, <<"A","U","T","O">>, <<"S","l","e","e","p">>,
      <<"M","e","D","i","U","m">>, <<"t","u","r","b","o">>,
      <<"s","l","e","e","p">>, <<"m","e","d","i","u","m">>,
      <<"e","c","o">>, <<"a","u","t","o"," ">>, <<>> }

LightInputs == {0, 1, 25, 50, 51, 80, 115, 116, 200}

ArgsOf(o) ==
    CASE o = "set_power" -> {PyBool(TRUE), PyBool(FALSE)}
      [] o = "set_child_lock" -> {PyBool(TRUE), PyBool(FALSE)}
      [] o = "set_mode" -> {PyStr(m) : m \in ModeInputs}
      [] o = "set_light_level" -> {PyInt(l) : l \in LightInputs}

ParamOf(o) ==
    CASE o = "set_power" -> PARAM_POWER
      [] o = "set_child_lock" -> PARAM_CHILD_LOCK
      [] o = "set_mode" -> PARAM_MODE
      [] o = "set_light_level" -> PARAM_LIGHT

\* the validation of set_mode, line 87
ModeRejected(mode) == ~InModeMap(Lower(mode))

\* a variant whose dim band ends below 50
light_device_value_strict(level) ==
    IF level = 0 THEN LIGHT_OFF
    ELSE IF level < 50 THEN LIGHT_DIM
    ELSE IF level <= 115 THEN level
    ELSE LIGHT_BRIGHT
\* device_value of set_light_level, lines 110-117
light_device_value(level) ==
    IF level = 0 THEN LIGHT_OFF
    ELSE IF level <= 50 THEN LIGHT_DIM
    ELSE IF level <= 115 THEN level
    ELSE LIGHT_BRIGHT

\* the value a set_* method hands to set_control_value
ValueOf(o, a) ==
    CASE o = "set_power" -> IF Truthy(a) THEN 1 ELSE 0
      [] o = "set_child_lock" -> IF Truthy(a) THEN 1 ELSE 0
      [] o = "set_mode" -> ModeMapGet(Lower(a.str))
      [] o = "set_light_level" -> light_device_value(a.int)

(***************************************************************************)
(* Transport interactions and call outcomes.                               *)
(***************************************************************************)
\* one interaction with the transport: ev is "create", "create_fail",
\* "shutdown", "sleep", "read", "read_fail", "write" or "write_fail"; h the
\* handle it was issued on; p the parameter written; x the value written or
\* the duration slept; err the exception it raised
Ev(e, h, p, x, err) == [ev |-> e, h |-> h, p |-> p, x |-> x, err |-> err]

NoResult == [kind |-> "none", value |-> PyNone, err |-> NoError]
Return(v) == [kind |-> "return", value |-> v, err |-> NoError]
Raise(e) == [kind |-> "raise", value |-> PyNone, err |-> e]

\* handles created and not yet shut down
Live == {h \in 1..created : shutdowns[h] = 0}

\* the client is used as a library: no handle_command is running
NotInCommand == [at |-> "none", exit |-> "none"]

Init ==
    /\ max_retries \in 1..MaxBudget
    /\ client = 0
    /\ created = 0
    /\ shutdowns = [h \in 1..MaxHandles |-> 0]
    /\ device \in RawStates
    /\ pc = "idle"
    /\ op = "none"
    /\ arg = PyNone
    /\ attempt = 0
    /\ last_error = NoError
    /\ status = EmptyRaw
    /\ value = 0
    /\ log = <<>>
    /\ result = NoResult
    /\ entry_client = 0
    /\ hc = NotInCommand

(***************************************************************************)
(* A caller invokes a public method: one outstanding call at a time.       *)
(***************************************************************************)
Enter(o, a, at) ==
    /\ pc = "idle"
    /\ op' = o
    /\ arg' = a
    /\ pc' = at
    /\ attempt' = 0
    /\ last_error' = NoError
    /\ status' = EmptyRaw
    /\ value' = 0
    /\ log' = <<>>
    /\ result' = NoResult
    /\ entry_client' = client
    /\ UNCHANGED <<max_retries, client, created, shutdowns, device>>

call_connect ==
    /\ hc.at = "none"
    /\ Enter("connect", PyNone, "c_call")
    /\ UNCHANGED hc

call_disconnect ==
    /\ hc.at = "none"
    /\ Enter("disconnect", PyNone, "d_call")
    /\ UNCHANGED hc

call_get ==
    /\ hc.at = "none"
    /\ \E o \in GetOps : Enter(o, PyNone, "gs_check")
    /\ UNCHANGED hc

call_set ==
    /\ hc.at = "none"
    /\ \E o \in SetOps : \E a \in ArgsOf(o) : Enter(o, a, "sv_check")
    /\ UNCHANGED hc

(***************************************************************************)
(* connect, lines 30-31.  It runs as a call of its own (c_call), from the  *)
(* guard of get_status (c_get) or of a set_* method (c_set), and from the  *)
(* retry branch of get_status (c_retry, followed by `continue`).           *)
(***************************************************************************)
ConnectPcs == {"c_call", "c_get", "c_set", "c_retry"}

connect_ok ==
    /\ pc \in ConnectPcs
    /\ created < MaxHandles
    /\ created' = created + 1
    /\ client' = created + 1
    /\ log' = Append(log, Ev("create", created + 1, "", 0, NoError))
    /\ pc' = CASE pc = "c_call" -> "idle"
               [] pc = "c_get" -> "gs_loop"
               [] pc = "c_set" -> "sv_value"
               [] pc = "c_retry" -> "gs_loop"
    /\ attempt' = IF pc = "c_retry" THEN attempt + 1 ELSE attempt
    /\ result' = IF pc = "c_call" THEN Return(PyNone) ELSE result
    /\ UNCHANGED <<hc, max_retries, shutdowns, device, op, arg, last_error,
                   status, value, entry_client>>

\* Client.create raises: the assignment of line 31 does not happen and the
\* exception leaves the method that awaited connect
connect_fail ==
    /\ pc \in ConnectPcs
    /\ log' = Append(log, Ev("create_fail", 0, "", 0, ConnectError))
    /\ result' = Raise(ConnectError)
    /\ pc' = "idle"
    /\ UNCHANGED <<hc, max_retries, client, created, shutdowns, device, op, arg,
                   attempt, last_error, status, value, entry_client>>

(***************************************************************************)
(* disconnect, lines 33-36: as a call of its own (d_call) and from the     *)
(* retry branch of get_status (d_retry).                                   *)
(***************************************************************************)
\* a variant that shuts the handle down and keeps holding it
ReleaseKeepsHandle ==
    IF client # 0
    THEN /\ shutdowns' = [shutdowns EXCEPT ![client] = @ + 1]
         /\ log' = Append(log, Ev("shutdown", client, "", 0, NoError))
         /\ client' = client
    ELSE UNCHANGED <<client, shutdowns, log>>
\* the body of disconnect
Release ==
    IF client # 0
    THEN /\ shutdowns' = [shutdowns EXCEPT ![client] = @ + 1]
         /\ log' = Append(log, Ev("shutdown", client, "", 0, NoError))
         /\ client' = 0
    ELSE UNCHANGED <<client, shutdowns, log>>

disconnect ==
    /\ pc \in {"d_call", "d_retry"}
    /\ Release
    /\ pc' = IF pc = "d_call" THEN "idle" ELSE "gs_sleep"
    /\ result' = IF pc = "d_call" THEN Return(PyNone) ELSE result
    /\ UNCHANGED <<hc, max_retries, created, device, op, arg, attempt,
                   last_error, status, value, entry_client>>

(***************************************************************************)
(* get_status, lines 38-58.                                                *)
(***************************************************************************)
\* a variant without the guard of line 39
get_status_check_never_connects ==
    /\ pc = "gs_check"
    /\ pc' = "gs_loop"
    /\ UNCHANGED <<hc, max_retries, client, created, shutdowns, device, op, arg,
                   attempt, last_error, status, value, log, result,
                   entry_client>>
\* lines 39-40: if not self._client
get_status_check ==
    /\ pc = "gs_check"
    /\ pc' = IF client = 0 THEN "c_get" ELSE "gs_loop"
    /\ UNCHANGED <<hc, max_retries, client, created, shutdowns, device, op, arg,
                   attempt, last_error, status, value, log, result,
                   entry_client>>

\* line 43: the next attempt, or line 58 when range(max_retries) is used up
get_status_loop ==
    /\ pc = "gs_loop"
    /\ IF attempt < max_retries
       THEN /\ pc' = "gs_read"
            /\ UNCHANGED result
       ELSE /\ pc' = "idle"
            /\ result' = Raise(RetryExhausted(max_retries, last_error))
    /\ UNCHANGED <<hc, max_retries, client, created, shutdowns, device, op, arg,
                   attempt, last_error, status, value, log, entry_client>>

\* a variant that translates the mapping it kept instead of the one just read
read_ok_stale ==
    /\ pc = "gs_read"
    /\ client # 0
    /\ status' = device
    /\ log' = Append(log, Ev("read", client, "", 0, NoError))
    /\ result' = Return(Translate(op, status))
    /\ pc' = "idle"
    /\ UNCHANGED <<hc, max_retries, client, created, shutdowns, device, op, arg,
                   attempt, last_error, value, entry_client>>
\* lines 45-46: the read succeeds; the calling get_* method translates the
\* mapping and returns without a further await
read_ok ==
    /\ pc = "gs_read"
    /\ client # 0
    /\ status' = device
    /\ log' = Append(log, Ev("read", client, "", 0, NoError))
    /\ result' = Return(Translate(op, device))
    /\ pc' = "idle"
    /\ UNCHANGED <<hc, max_retries, client, created, shutdowns, device, op, arg,
                   attempt, last_error, value, entry_client>>

\* a variant whose retry branch sleeps without disconnecting first
read_fail_keeps_session ==
    /\ pc = "gs_read"
    /\ client # 0
    /\ \E e \in TransportErrors :
        /\ log' = Append(log, Ev("read_fail", client, "", 0, e))
        /\ IF IsTransient(ErrToStr(e))
           THEN /\ last_error' = e
                /\ IF MayRetry(attempt, max_retries)
                   THEN /\ pc' = "gs_sleep"
                        /\ UNCHANGED result
                   ELSE /\ pc' = "idle"
                        /\ result' = Raise(e)
           ELSE /\ pc' = "idle"
                /\ result' = Raise(e)
                /\ UNCHANGED last_error
    /\ UNCHANGED <<hc, max_retries, client, created, shutdowns, device, op, arg,
                   attempt, status, value, entry_client>>
\* lines 47-56: the read raises e
read_fail ==
    /\ pc = "gs_read"
    /\ client # 0
    /\ \E e \in TransportErrors :
        /\ log' = Append(log, Ev("read_fail", client, "", 0, e))
        /\ IF IsTransient(ErrToStr(e))
           THEN /\ last_error' = e
                /\ IF MayRetry(attempt, max_retries)
                   THEN /\ pc' = "d_retry"
                        /\ UNCHANGED result
                   ELSE /\ pc' = "idle"
                        /\ result' = Raise(e)
           ELSE /\ pc' = "idle"
                /\ result' = Raise(e)
                /\ UNCHANGED last_error
    /\ UNCHANGED <<hc, max_retries, client, created, shutdowns, device, op, arg,
                   attempt, status, value, entry_client>>

\* line 53: asyncio.sleep(0.5 * (attempt + 1))
sleep ==
    /\ pc = "gs_sleep"
    /\ log' = Append(log, Ev("sleep", client, "", Backoff(attempt), NoError))
    /\ pc' = "c_retry"
    /\ UNCHANGED <<hc, max_retries, client, created, shutdowns, device, op, arg,
                   attempt, last_error, status, value, result, entry_client>>

(***************************************************************************)
(* The set_* methods: lines 65-70, 76-91, 106-119, 165-170.                *)
(***************************************************************************)
\* if not self._client: await self.connect()
set_check ==
    /\ pc = "sv_check"
    /\ pc' = IF client = 0 THEN "c_set" ELSE "sv_value"
    /\ UNCHANGED <<hc, max_retries, client, created, shutdowns, device, op, arg,
                   attempt, last_error, status, value, log, result,
                   entry_client>>

\* the value to write; set_mode raises ValueError for a name not in mode_map
set_value ==
    /\ pc = "sv_value"
    /\ IF op = "set_mode" /\ ModeRejected(arg.str)
       THEN /\ pc' = "idle"
            /\ result' = Raise(InvalidMode(arg.str))
            /\ UNCHANGED value
       ELSE /\ pc' = "sv_write"
            /\ value' = ValueOf(op, arg)
            /\ UNCHANGED result
    /\ UNCHANGED <<hc, max_retries, client, created, shutdowns, device, op, arg,
                   attempt, last_error, status, log, entry_client>>

\* return await self._client.set_control_value(param, value)
write_ok ==
    /\ pc = "sv_write"
    /\ client # 0
    /\ log' = Append(log, Ev("write", client, ParamOf(op), value, NoError))
    /\ \E b \in BOOLEAN : result' = Return(PyBool(b))
    /\ pc' = "idle"
    /\ UNCHANGED <<hc, max_retries, client, created, shutdowns, device, op, arg,
                   attempt, last_error, status, value, entry_client>>

\* a variant in which a failed write goes through the reconnect of the reads
write_fail_reconnects ==
    /\ pc = "sv_write"
    /\ client # 0
    /\ \E e \in TransportErrors :
        log' = Append(log, Ev("write_fail", client, ParamOf(op), value, e))
    /\ pc' = "d_retry"
    /\ UNCHANGED <<hc, max_retries, client, created, shutdowns, device, op, arg,
                   attempt, last_error, status, value, result, entry_client>>
\* set_control_value raises e: nothing catches it
write_fail ==
    /\ pc = "sv_write"
    /\ client # 0
    /\ \E e \in TransportErrors :
        /\ log' = Append(log, Ev("write_fail", client, ParamOf(op), value, e))
        /\ result' = Raise(e)
    /\ pc' = "idle"
    /\ UNCHANGED <<hc, max_retries, client, created, shutdowns, device, op, arg,
                   attempt, last_error, status, value, entry_client>>

(***************************************************************************)
(* The appliance changes its state on its own.                             *)
(***************************************************************************)
device_change ==
    /\ device' \in RawStates \ {device}
    /\ UNCHANGED <<hc, max_retries, client, created, shutdowns, pc, op, arg,
                   attempt, last_error, status, value, log, result,
                   entry_client>>

Next ==
    \/ call_connect
    \/ call_disconnect
    \/ call_get
    \/ call_set
    \/ connect_ok
    \/ connect_fail
    \/ disconnect
    \/ get_status_check
    \/ get_status_loop
    \/ read_ok
    \/ read_fail
    \/ sleep
    \/ set_check
    \/ set_value
    \/ write_ok
    \/ write_fail
    \/ device_change

Spec == Init /\ [][Next]_vars

(***************************************************************************)
(* handle_command, lines 173-241: a fresh client with max_retries = 3,     *)
(* connect, one command, and disconnect in the finally clause.  The        *)
(* command and its arguments are inputs, drawn where they are first used.  *)
(***************************************************************************)
CommandRetries == 3

At(a, e) == [at |-> a, exit |-> e]

\* args[0] of the power and childlock commands
SwitchArgs ==
    { <<"o","n">>, <<"O","N">>, <<"o","f","f">>, <<"1">>,
      <<"t","r","u","e">>, <<"e","n","a","b","l","e","d">> }

\* line 189: args[0].lower() in ["on", "1", "true"]
power_on(a) ==
    Lower(a) \in { <<"o","n">>, <<"1">>, <<"t","r","u","e">> }

\* line 219: args[0].lower() in ["on", "1", "true", "enabled"]
lock_enabled(a) ==
    Lower(a) \in { <<"o","n">>, <<"1">>, <<"t","r","u","e">>,
                   <<"e","n","a","b","l","e","d">> }

InitCommand ==
    /\ max_retries = CommandRetries
    /\ client = 0
    /\ created = 0
    /\ shutdowns = [h \in 1..MaxHandles |-> 0]
    /\ device \in RawStates
    /\ pc = "idle"
    /\ op = "none"
    /\ arg = PyNone
    /\ attempt = 0
    /\ last_error = NoError
    /\ status = EmptyRaw
    /\ value = 0
    /\ log = <<>>
    /\ result = NoResult
    /\ entry_client = 0
    /\ hc = At("start", "none")

\* line 177: await purifier.connect()
hc_connect ==
    /\ hc.at = "start"
    /\ Enter("connect", PyNone, "c_call")
    /\ hc' = At("connect", "none")

\* lines 179-224: the branch of the command calls one method of the client
hc_dispatch ==
    /\ hc.at = "connect"
    /\ result.kind = "return"
    /\ \/ \E o \in GetOps : Enter(o, PyNone, "gs_check")
       \/ \E a \in SwitchArgs :
             Enter("set_power", PyBool(power_on(a)), "sv_check")
       \/ \E m \in ModeInputs : Enter("set_mode", PyStr(m), "sv_check")
       \/ \E l \in LightInputs :
             Enter("set_light_level", PyInt(l), "sv_check")
       \/ \E a \in SwitchArgs :
             Enter("set_child_lock", PyBool(lock_enabled(a)), "sv_check")
    /\ hc' = At("command", "none")

\* lines 226-236: an unknown command returns 1
hc_unknown ==
    /\ hc.at = "connect"
    /\ pc = "idle"
    /\ result.kind = "return"
    /\ hc' = At("finally", "1")
    /\ UNCHANGED <<max_retries, client, created, shutdowns, device, pc, op,
                   arg, attempt, last_error, status, value, log, result,
                   entry_client>>

\* line 206: int(args[0]) raises ValueError
hc_bad_level ==
    /\ hc.at = "connect"
    /\ pc = "idle"
    /\ result.kind = "return"
    /\ hc' = At("finally", "raise")
    /\ UNCHANGED <<max_retries, client, created, shutdowns, device, pc, op,
                   arg, attempt, last_error, status, value, log, result,
                   entry_client>>

\* line 238: the method returned: return 0
hc_returned ==
    /\ hc.at = "command"
    /\ pc = "idle"
    /\ result.kind = "return"
    /\ hc' = At("finally", "0")
    /\ UNCHANGED <<max_retries, client, created, shutdowns, device, pc, op,
                   arg, attempt, last_error, status, value, log, result,
                   entry_client>>

\* a variant in which an exception leaves handle_command at once
hc_raised_skips_finally ==
    /\ hc.at \in {"connect", "command"}
    /\ pc = "idle"
    /\ result.kind = "raise"
    /\ hc' = At("exit", "raise")
    /\ UNCHANGED <<max_retries, client, created, shutdowns, device, pc, op,
                   arg, attempt, last_error, status, value, log, result,
                   entry_client>>
\* connect or the method raised: the exception leaves the try block
hc_raised ==
    /\ hc.at \in {"connect", "command"}
    /\ pc = "idle"
    /\ result.kind = "raise"
    /\ hc' = At("finally", "raise")
    /\ UNCHANGED <<max_retries, client, created, shutdowns, device, pc, op,
                   arg, attempt, last_error, status, value, log, result,
                   entry_client>>

\* lines 240-241: finally: await purifier.disconnect()
hc_finally ==
    /\ hc.at = "finally"
    /\ Enter("disconnect", PyNone, "d_call")
    /\ hc' = At("disconnect", hc.exit)

\* disconnect returned: handle_command ends with the return value or the
\* exception of its try block
hc_exit ==
    /\ hc.at = "disconnect"
    /\ pc = "idle"
    /\ hc' = At("exit", hc.exit)
    /\ UNCHANGED <<max_retries, client, created, shutdowns, device, pc, op,
                   arg, attempt, last_error, status, value, log, result,
                   entry_client>>

NextCommand ==
    \/ hc_connect
    \/ hc_dispatch
    \/ hc_unknown
    \/ hc_bad_level
    \/ hc_returned
    \/ hc_raised
    \/ hc_finally
    \/ hc_exit
    \/ connect_ok
    \/ connect_fail
    \/ disconnect
    \/ get_status_check
    \/ get_status_loop
    \/ read_ok
    \/ read_fail
    \/ sleep
    \/ set_check
    \/ set_value
    \/ write_ok
    \/ write_fail
    \/ device_change

SpecCommand == InitCommand /\ [][NextCommand]_vars

TypeOK ==
    /\ max_retries \in 1..MaxBudget
    /\ client \in 0..created
    /\ created \in 0..MaxHandles
    /\ pc \in {"idle", "gs_check", "gs_loop", "gs_read", "gs_sleep",
               "sv_check", "sv_value", "sv_write", "d_call", "d_retry"}
              \cup ConnectPcs

(***************************************************************************)
(* Vocabulary of the properties.                                           *)
(***************************************************************************)
\* the last call has ended
Done == pc = "idle" /\ result.kind # "none"

\* positions of the log holding an event of one of the kinds in E
Positions(E) == {i \in 1..Len(log) : log[i].ev \in E}

ReadAttempts == Cardinality(Positions({"read", "read_fail"}))
ReadFailures == Cardinality(Positions({"read_fail"}))

\* a decode/decrypt message: it contains "non-hexadecimal" or, in any case,
\* "decrypt"
DecodeOrDecrypt(m) ==
    \/ \E i \in 1..(Len(m) - 14) : SubSeq(m, i, i + 14) =
           <<"n","o","n","-","h","e","x","a","d","e","c","i","m","a","l">>
    \/ \E i \in 1..(Len(m) - 6) : Lower(SubSeq(m, i, i + 6)) =
           <<"d","e","c","r","y","p","t">>

\* every read attempt of the current call failed with a decode/decrypt error
AllReadsFailedTransiently ==
    \A i \in Positions({"read", "read_fail"}) :
        log[i].ev = "read_fail" /\ DecodeOrDecrypt(log[i].err.msg)

\* the log without the create of the guard `if not self._client`
Body == IF Len(log) > 0 /\ log[1].ev = "create" THEN Tail(log) ELSE log

\* C1: when all max_retries read attempts of a get_status fail with a
\* decode/decrypt error, the call raises the "Failed to get status after N
\* attempts" exception, whose message carries the last of those errors.
C1_ExhaustionRaisesRetryExhausted ==
    (Done /\ op \in GetOps /\ ReadAttempts = max_retries
          /\ AllReadsFailedTransiently)
    => /\ result.kind = "raise"
       /\ result.err.cls = "Exception"
       /\ result.err.msg =
            <<"F","a","i","l","e","d"," ","t","o"," ","g","e","t"," ",
              "s","t","a","t","u","s"," ","a","f","t","e","r"," ">>
            \o IntStr(max_retries)
            \o <<" ","a","t","t","e","m","p","t","s",":"," ">>
            \o log[Len(log)].err.msg

\* C2: a get_status whose first k reads fail with a decode/decrypt error and
\* whose read k+1 succeeds (k < max_retries) returns what that read returned;
\* its transport interactions are, k times, the failed read, one shutdown of
\* the handle read from, one sleep of 0.5*(i+1) s (i = 0..k-1, in tenths: 5,
\* 10, ...) and one create, and then the successful read on the last handle.
C2_RetryThenSuccess ==
    (Done /\ op \in GetOps /\ result.kind = "return")
    => LET k == ReadFailures IN
       /\ k < max_retries
       /\ Len(Body) = 4 * k + 1
       /\ \A i \in 0..(k - 1) :
            /\ Body[4 * i + 1].ev = "read_fail"
            /\ DecodeOrDecrypt(Body[4 * i + 1].err.msg)
            /\ Body[4 * i + 2].ev = "shutdown"
            /\ Body[4 * i + 2].h = Body[4 * i + 1].h
            /\ Body[4 * i + 3].ev = "sleep"
            /\ Body[4 * i + 3].x = 5 * (i + 1)
            /\ Body[4 * i + 4].ev = "create"
            /\ Body[4 * i + 5].h = Body[4 * i + 4].h
       /\ Body[4 * k + 1].ev = "read"
       /\ Cardinality(Positions({"shutdown"})) = k
       /\ Cardinality(Positions({"sleep"})) = k
       /\ result.value = Translate(op, status)

\* C2 happens: budget 3, two failed reads, then a successful one
C2_Witness ==
    /\ Done /\ op = "get_status" /\ result.kind = "return"
    /\ max_retries = 3 /\ ReadFailures = 2
    /\ result.value # EmptyRaw

\* C3: one get_status makes at most max_retries reads and at most
\* max_retries - 1 reconnects, and a decode/decrypt read error reaches the
\* caller only when max_retries reads were made and all of them failed so.
C3_BoundedRetries ==
    op \in GetOps
    => /\ ReadAttempts <= max_retries
       /\ Cardinality(Positions({"shutdown"})) <= max_retries - 1
       /\ Cardinality({i \in Positions({"create"}) : i > 1}) <= max_retries - 1
       /\ Cardinality(Positions({"sleep"})) <= max_retries - 1
       /\ (Done /\ result.kind = "raise" /\ DecodeOrDecrypt(result.err.msg))
          => (ReadAttempts = max_retries /\ AllReadsFailedTransiently)

\* C3 happens: budget 3 used up by three decode/decrypt failures
C3_Witness ==
    /\ Done /\ op \in GetOps /\ result.kind = "raise"
    /\ max_retries = 3 /\ ReadFailures = 3
    /\ Cardinality(Positions({"shutdown"})) = 2

\* C4: a read error that is no decode/decrypt error ends get_status on the
\* spot, whatever the attempt: it is the last transport interaction of the
\* call, the call raises that same error, and the handle read from is still
\* held and not shut down.
C4_FatalReadErrorRaisedAtOnce ==
    \A i \in Positions({"read_fail"}) :
        ~DecodeOrDecrypt(log[i].err.msg)
        => /\ i = Len(log)
           /\ pc = "idle"
           /\ result = Raise(log[i].err)
           /\ client = log[i].h
           /\ client \in Live

\* C4 happens on the third attempt, with a message that differs from the
\* decode pattern by case only
C4_Witness ==
    /\ Done /\ op \in GetOps /\ ReadAttempts = 3
    /\ log[Len(log)].ev = "read_fail"
    /\ log[Len(log)].err.msg = MsgNonHexCapital

\* C5: a set_* call issues at most one write, which is its last transport
\* interaction: when the write raises, whatever the error, the call raises
\* that error, nothing was shut down or slept, and the handle written to is
\* still held.
C5_WritesNotRetried ==
    op \in SetOps
    => /\ Cardinality(Positions({"write", "write_fail"})) <= 1
       /\ Positions({"shutdown", "sleep", "read", "read_fail"}) = {}
       /\ \A i \in Positions({"write", "write_fail"}) :
            /\ i = Len(log)
            /\ pc = "idle"
            /\ client = log[i].h
            /\ log[i].ev = "write_fail" => result = Raise(log[i].err)

\* C5 happens: a write fails with a decode/decrypt error
C5_Witness ==
    /\ Done /\ op = "set_light_level"
    /\ Len(log) > 0 /\ log[Len(log)].ev = "write_fail"
    /\ DecodeOrDecrypt(log[Len(log)].err.msg)
    /\ client # 0

\* C6: at most one handle is live (created and not shut down) at any time,
\* whatever sequence of connect, disconnect, get_* and set_* calls was made.
C6_AtMostOneLiveHandle == Cardinality(Live) <= 1

\* C7: a get_* or set_* call entered with no handle held begins by creating
\* one (and ends at once if the creation fails), and whenever a read or a
\* write is about to be issued the handle it goes to is held and live; every
\* read or write of the current call went to a handle created before it and
\* not shut down earlier in the call.
C7_TransportUsedOnlyOnHeldLiveHandle ==
    /\ (op \in GetOps \cup SetOps /\ entry_client = 0
           /\ pc \notin {"gs_check", "sv_check", "c_get", "c_set"})
       => /\ Len(log) > 0
          /\ log[1].ev \in {"create", "create_fail"}
          /\ log[1].ev = "create_fail"
             => (Len(log) = 1 /\ pc = "idle" /\ result.kind = "raise")
    /\ pc \in {"gs_read", "sv_write"} => (client # 0 /\ client \in Live)
    /\ \A i \in Positions({"read", "read_fail", "write", "write_fail"}) :
            /\ log[i].h \in 1..created
            /\ \A j \in 1..(i - 1) :
                 ~(log[j].ev = "shutdown" /\ log[j].h = log[i].h)

\* C7 happens: a call entered without a handle is about to read again after
\* a reconnect
C7_Witness ==
    /\ pc = "gs_read" /\ entry_client = 0 /\ attempt > 0
    /\ client \in Live

\* C8: when disconnect returns no handle is held; entered with a handle it
\* shut that handle down once, entered without one it touched nothing; it
\* raises nothing; and no handle is ever shut down twice.
C8_DisconnectReleasesOnce ==
    /\ (Done /\ op = "disconnect")
       => /\ client = 0
          /\ result = Return(PyNone)
          /\ entry_client = 0 => log = <<>>
          /\ entry_client # 0
             => (Len(log) = 1 /\ log[1].ev = "shutdown"
                 /\ log[1].h = entry_client /\ entry_client \notin Live)
    /\ \A h \in 1..MaxHandles : shutdowns[h] <= 1

\* C8 happens: disconnect was called with no handle held, after an earlier
\* disconnect had shut one down
C8_Witness ==
    /\ Done /\ op = "disconnect" /\ entry_client = 0
    /\ \E h \in 1..created : shutdowns[h] = 1

\* C9: set_mode with a name that is, ignoring case, auto, sleep, medium or
\* turbo writes only that name's code (0, 17, 19, 18) to the mode parameter;
\* with any other name it raises a ValueError that lists the four names and
\* attempts no write.
C9_SetModeWritesCodeOrRejects ==
    (op = "set_mode" /\ Done)
    => LET lowered == Lower(arg.str)
           codes == { <<(<<"a","u","t","o">>), 0>>,
                      <<(<<"s","l","e","e","p">>), 17>>,
                      <<(<<"m","e","d","i","u","m">>), 19>>,
                      <<(<<"t","u","r","b","o">>), 18>> }
       IN IF \E c \in codes : c[1] = lowered
          THEN \A i \in Positions({"write", "write_fail"}) :
                  /\ log[i].p = "D0310C"
                  /\ <<lowered, log[i].x>> \in codes
          ELSE /\ Positions({"write", "write_fail"}) = {}
               /\ result.kind = "raise"
               /\ result.err.cls = "ValueError"
               /\ \A c \in codes : Contains(c[1], result.err.msg)

\* C10: get_mode returns the name of the raw mode code: auto, sleep, medium,
\* turbo for 0, 17, 19, 18, "unknown (<code>)" for any other code, and
\* "unknown" when the raw state has no mode parameter.
C10_GetModeReturnsName ==
    (op = "get_mode" /\ Done /\ result.kind = "return")
    => result.value =
         IF "D0310C" \notin DOMAIN status
         THEN PyStr(<<"u","n","k","n","o","w","n">>)
         ELSE CASE status["D0310C"] = 0 -> PyStr(<<"a","u","t","o">>)
                [] status["D0310C"] = 17 -> PyStr(<<"s","l","e","e","p">>)
                [] status["D0310C"] = 19 -> PyStr(<<"m","e","d","i","u","m">>)
                [] status["D0310C"] = 18 -> PyStr(<<"t","u","r","b","o">>)
                [] OTHER -> PyStr(<<"u","n","k","n","o","w","n"," ","(">>
                                  \o IntStr(status["D0310C"]) \o <<")">>)

\* C11: set_light_level(level), level >= 0, hands exactly one value to the
\* light parameter: 0 for level 0, 115 for 1..50, the level itself for
\* 51..115, 123 above 115.
C11_LightQuantization ==
    (op = "set_light_level" /\ arg.int >= 0)
    => LET level == arg.int
           expected == IF level = 0 THEN 0
                       ELSE IF level >= 1 /\ level <= 50 THEN 115
                       ELSE IF level >= 51 /\ level <= 115 THEN level
                       ELSE 123
       IN /\ \A i \in Positions({"write", "write_fail"}) :
               log[i].p = "D03104" /\ log[i].x = expected
          /\ (Done /\ result.kind = "return")
             => Cardinality(Positions({"write"})) = 1

\* C11 happens at the four boundaries 50, 51, 115, 116
C11_Witness ==
    /\ Done /\ op = "set_light_level" /\ result.kind = "return"
    /\ <<arg.int, log[Len(log)].x>> \in
           {<<50, 115>>, <<51, 51>>, <<115, 115>>, <<116, 123>>}

\* C12: in the record get_sensors returns, filter_life_percent is
\* remaining / total * 100 to one decimal place when total > 0 and 0 when
\* total <= 0, total being 9600 and remaining 0 when the raw state lacks
\* them; cleanup_percent is the same with time-until-next, max-interval and
\* the default 720.
C12_SensorPercentages ==
    (op = "get_sensors" /\ Done /\ result.kind = "return")
    => LET Has(k) == k \in DOMAIN status
           total == IF Has("D05408") THEN status["D05408"] ELSE 9600
           remaining == IF Has("D0540E") THEN status["D0540E"] ELSE 0
           interval == IF Has("D05207") THEN status["D05207"] ELSE 720
           next == IF Has("D0520D") THEN status["D0520D"] ELSE 0
           \* v is part / whole * 100 to within half a tenth
           IsPercent(v, part, whole) ==
               IF whole > 0
               THEN /\ v.kind = "float"
                    /\ 2 * (v.int * whole - 1000 * part) <= whole
                    /\ 2 * (1000 * part - v.int * whole) <= whole
               ELSE v.kind \in {"int", "float"} /\ v.int = 0
       IN /\ IsPercent(result.value.filter_life_percent, remaining, total)
          /\ IsPercent(result.value.cleanup_percent, next, interval)

\* C12 happens: total 9600 and remaining 4800 give 50.0
C12_Witness ==
    /\ op = "get_sensors" /\ Done /\ result.kind = "return"
    /\ "D05408" \in DOMAIN status /\ status["D05408"] = 9600
    /\ "D0540E" \in DOMAIN status /\ status["D0540E"] = 4800
    /\ result.value.filter_life_percent = PyFloat1(500)

\* C12 happens with a total of 0: the percentage is 0
C12_WitnessZeroTotal ==
    /\ op = "get_sensors" /\ Done /\ result.kind = "return"
    /\ "D05408" \in DOMAIN status /\ status["D05408"] = 0
    /\ result.value.filter_life_percent.int = 0

\* C13: whatever calls, retries and device changes came before, the value a
\* get_* call returns is the translation of the raw state the appliance
\* reports at the read that succeeds, and of nothing else: the same raw
\* state gives the same record, a changed one the record of the new state.
C13_GetsDependOnReadStateOnly ==
    [][(pc = "gs_read" /\ pc' = "idle" /\ result'.kind = "return")
       => /\ status' = device
          /\ result'.value =
               CASE op = "get_status" -> device
                 [] op = "get_power" -> get_power(device)
                 [] op = "get_mode" -> get_mode(device)
                 [] op = "get_light_level" -> get_light_level(device)
                 [] op = "get_child_lock" -> get_child_lock(device)
                 [] op = "get_air_quality" -> get_air_quality(device)
                 [] op = "get_sensors" -> get_sensors(device)]_vars

\* C13 happens: get_sensors returns after a failed read and a reconnect, on
\* a client that was used before
C13_Witness ==
    /\ Done /\ op = "get_sensors" /\ result.kind = "return"
    /\ ReadFailures >= 1 /\ entry_client # 0
    /\ result.value = get_sensors(device)

\* C14: get_air_quality returns, for pm2.5 and for the air quality index,
\* the value of the friendly key (pm25, iaql) whenever the raw state has
\* that key, whatever the value, 0 included, and the value of the raw-code
\* key (D03221, D03120) only when the friendly key is absent.
C14_FriendlyKeyPreferred ==
    (op = "get_air_quality" /\ Done /\ result.kind = "return")
    => LET Prefer(friendly, code) ==
               IF friendly \in DOMAIN status THEN PyInt(status[friendly])
               ELSE IF code \in DOMAIN status THEN PyInt(status[code])
               ELSE PyNone
       IN /\ result.value.pm25 = Prefer("pm25", "D03221")
          /\ result.value.iaql = Prefer("iaql", "D03120")

\* C15: a reconnect of get_status is disconnect, sleep, connect, read, in
\* that order: the sleep directly follows the shutdown of the handle whose
\* read failed, no handle is held while the sleep is pending or running,
\* the create directly follows the sleep, and the next read goes to the
\* created handle, never to the one whose read failed.
C15_ReconnectOrder ==
    /\ pc \in {"gs_sleep", "c_retry"} => client = 0
    /\ \A i \in Positions({"sleep"}) :
          /\ i >= 3
          /\ log[i].h = 0
          /\ log[i - 2].ev = "read_fail"
          /\ log[i - 1].ev = "shutdown"
          /\ log[i - 1].h = log[i - 2].h
          /\ log[i - 1].h \notin Live
          /\ i < Len(log) => log[i + 1].ev \in {"create", "create_fail"}
          /\ i + 1 < Len(log)
             => /\ log[i + 1].ev = "create"
                /\ log[i + 2].ev \in {"read", "read_fail"}
                /\ log[i + 2].h = log[i + 1].h
                /\ log[i + 2].h # log[i - 2].h
    /\ \A i \in Positions({"read_fail"}) :
          i < Len(log)
          => /\ log[i + 1].ev = "shutdown"
             /\ i + 1 < Len(log) => log[i + 2].ev = "sleep"
    /\ (pc = "gs_read" /\ attempt > 0)
       => /\ log[Len(log)].ev = "create"
          /\ log[Len(log)].h = client
          /\ \A j \in Positions({"read_fail"}) : log[j].h # client

\* C15 happens: the second reconnect of a call is done and the third read
\* is about to be issued
C15_Witness ==
    /\ pc = "gs_read" /\ attempt = 2
    /\ Cardinality(Positions({"sleep"})) = 2
    /\ client \in Live

\* C16: the power, mode, light_level, pm25, iaql and tvoc fields of the
\* record get_sensors returns are what get_power, get_mode, get_light_level
\* and get_air_quality return for the same raw state.
C16_SensorsComposeDomainReads ==
    (op = "get_sensors" /\ Done /\ result.kind = "return")
    => /\ result.value.power = get_power(status)
       /\ result.value.mode = get_mode(status)
       /\ result.value.light_level = get_light_level(status)
       /\ result.value.pm25 = get_air_quality(status).pm25
       /\ result.value.iaql = get_air_quality(status).iaql
       /\ result.value.tvoc = get_air_quality(status).tvoc

\* C17: the four mode names have four distinct codes, and the code that
\* set_mode writes for a name resolves through _get_mode_name to that name
\* again; the mode_name field of get_sensors is the name whose code the raw
\* state holds.
C17_ModeRoundTrip ==
    /\ Cardinality({mode_map[i].code : i \in 1..Len(mode_map)}) = 4
    /\ op = "set_mode"
       => \A i \in Positions({"write", "write_fail"}) :
             /\ Lower(arg.str) \in
                  { <<"a","u","t","o">>, <<"s","l","e","e","p">>,
                    <<"m","e","d","i","u","m">>, <<"t","u","r","b","o">> }
             /\ get_mode_name(PyInt(log[i].x)) = Lower(arg.str)
    /\ (op = "get_sensors" /\ Done /\ result.kind = "return")
       => \A i \in 1..Len(mode_map) :
             ("D0310C" \in DOMAIN status
                 /\ ValueOf("set_mode", PyStr(mode_map[i].name))
                      = status["D0310C"])
             => result.value.mode_name = PyStr(mode_map[i].name)

\* C17 happens: set_mode("turbo") has written 18
C17_Witness ==
    /\ Done /\ op = "set_mode" /\ result.kind = "return"
    /\ arg.str = <<"t","u","r","b","o">>
    /\ log[Len(log)].ev = "write" /\ log[Len(log)].x = 18

\* C19: a set_mode call that raises the ValueError for an invalid name has
\* had no transport interaction: no handle was created, and self._client is
\* what it was when the call was entered.
C19_RejectedSetModeTouchesNothing ==
    (op = "set_mode" /\ Done /\ result.kind = "raise"
        /\ result.err.cls = "ValueError"
        /\ Contains(<<"I","n","v","a","l","i","d"," ","m","o","d","e">>,
                    result.err.msg))
    => /\ log = <<>>
       /\ client = entry_client

\* C18: when handle_command ends, by return 0, by return 1 for an unknown
\* command or by an exception of connect, of a read, of a reconnect, of a
\* write or of the mode validation, the client holds no handle and every
\* handle created during the command was shut down exactly once.
C18_CommandLeavesNoSession ==
    hc.at = "exit"
    => /\ client = 0
       /\ \A h \in 1..created : shutdowns[h] = 1
       /\ \A h \in (created + 1)..MaxHandles : shutdowns[h] = 0

\* C18 happens: the command ends with the exception of a third failed read,
\* after two reconnects
C18_Witness ==
    /\ hc.at = "exit" /\ hc.exit = "raise"
    /\ created = 3 /\ client = 0
    /\ op = "disconnect" /\ entry_client = 3


====
